---- MODULE Spec2Model ----
(***************************************************************************)
(* A model of autogen_ext.models.ollama._ollama_client: the request        *)
(* builder (_process_create_args), the completion orchestrator (create)    *)
(* and the streaming orchestrator (create_stream) of                       *)
(* BaseOllamaChatCompletionClient, run by several coroutines on one        *)
(* asyncio event loop.  An action is one run of a coroutine from one       *)
(* suspension point (await / yield) to the next.                           *)
(***************************************************************************)
EXTENDS Integers, Sequences, FiniteSets, TLC

(***************************************************************************)
(* Python values.  Optional[T] is a sequence of length 0 (None) or 1.      *)
(***************************************************************************)
None == <<>>

Some(x) == <<x>>

IsNone(o) == o = <<>>

Val(o) == o[1]

\* A value stored in a create-args dict: a str, a pydantic class, a JSON
\* schema produced by model_json_schema(), or a nested dict.
VStr(s) == [t |-> "str", s |-> s, d |-> <<>>]

VType(cls) == [t |-> "type", s |-> cls, d |-> <<>>]

VSchema(cls) == [t |-> "schema", s |-> cls, d |-> <<>>]

VDict(d) == [t |-> "dict", s |-> "", d |-> d]

\* value.model_json_schema() of a pydantic model class
model_json_schema(v) == VSchema(v.s)

\* isinstance(value, type) and issubclass(value, BaseModel)
IsModelClass(v) == v.t = "type"

(***************************************************************************)
(* Python dicts: insertion-ordered sequences of <<key, value>> with        *)
(* distinct keys.                                                          *)
(***************************************************************************)
DictKeys(d) == {d[i][1] : i \in 1..Len(d)}

DictHas(d, k) == k \in DictKeys(d)

DictGet(d, k) == d[CHOOSE i \in 1..Len(d) : d[i][1] = k][2]

\* d[k] = v
DictSet(d, k, v) ==
    IF DictHas(d, k)
    THEN [i \in 1..Len(d) |-> IF d[i][1] = k THEN <<k, v>> ELSE d[i]]
    ELSE Append(d, <<k, v>>)

\* del d[k]
DictDel(d, k) == SelectSeq(d, LAMBDA kv : kv[1] # k)

RECURSIVE DictUpdate(_, _)
\* d.update(e)
DictUpdate(d, e) ==
    IF e = <<>> THEN d
    ELSE DictUpdate(DictSet(d, Head(e)[1], Head(e)[2]), Tail(e))

(***************************************************************************)
(* Names: sequences of one-character strings.                              *)
(***************************************************************************)
MaxNameLen == 64

NameChars ==
    {"a", "b", "c", "d", "e", "f", "g", "h", "i", "j", "k", "l", "m",
     "n", "o", "p", "q", "r", "s", "t", "u", "v", "w", "x", "y", "z",
     "A", "B", "C", "D", "E", "F", "G", "H", "I", "J", "K", "L", "M",
     "N", "O", "P", "Q", "R", "S", "T", "U", "V", "W", "X", "Y", "Z",
     "0", "1", "2", "3", "4", "5", "6", "7", "8", "9", "_", "-"}

\* a slip: the [:64] is missing
normalize_name_untruncated(name) ==
    [i \in 1..Len(name) |-> IF name[i] \in NameChars THEN name[i] ELSE "_"]

\* re.sub(r"[^a-zA-Z0-9_-]", "_", name)[:64]
normalize_name(name) ==
    LET subbed == [i \in 1..Len(name) |->
                      IF name[i] \in NameChars THEN name[i] ELSE "_"]
    IN  IF Len(subbed) > MaxNameLen THEN SubSeq(subbed, 1, MaxNameLen) ELSE subbed

\* a slip: only the length is checked
valid_name_length_only(name) == ~(Len(name) > MaxNameLen)

\* assert_valid_name does not raise: ^[a-zA-Z0-9_-]+$ and len(name) <= 64
valid_name(name) ==
    /\ Len(name) >= 1
    /\ \A i \in 1..Len(name) : name[i] \in NameChars
    /\ ~(Len(name) > MaxNameLen)

(***************************************************************************)
(* Results of operations that may raise: err = "" when nothing is raised.  *)
(***************************************************************************)
Ok(v) == [err |-> "", val |-> v]

Raise(e) == [err |-> e, val |-> <<>>]

(***************************************************************************)
(* Module constants and _create_args_from_config.                          *)
(***************************************************************************)
LLM_CONTROL_PARAMS ==
    {"temperature", "top_p", "top_k", "repeat_penalty", "frequency_penalty",
     "presence_penalty", "mirostat", "mirostat_eta", "mirostat_tau", "seed",
     "num_ctx", "num_predict", "num_gpu", "stop", "tfs_z", "typical_p"}

OLLAMA_VALID_CREATE_KWARGS_KEYS ==
    {"model", "messages", "tools", "stream", "format", "options", "keep_alive",
     "response_format"}

\* str.lower() on the keys callers pass
Lower(k) ==
    CASE k = "Format" -> "format"
      [] k = "Temperature" -> "temperature"
      [] k = "Seed" -> "seed"
      [] k = "STOP" -> "stop"
      [] k = "End_Turn" -> "end_turn"
      [] k = "TOOL_CALLS" -> "tool_calls"
      [] OTHER -> k

RECURSIVE create_args_loop(_, _, _)
\* the loop "for k, v in config.items()"; returns <<create_args, options_dict>>
create_args_loop(items, create_args, options_dict) ==
    IF items = <<>> THEN <<create_args, options_dict>>
    ELSE LET k_lower == Lower(Head(items)[1])
             v == Head(items)[2]
         IN  IF k_lower \in OLLAMA_VALID_CREATE_KWARGS_KEYS
             THEN create_args_loop(Tail(items), DictSet(create_args, k_lower, v), options_dict)
             ELSE IF k_lower \in LLM_CONTROL_PARAMS
             THEN create_args_loop(Tail(items), create_args, DictSet(options_dict, k_lower, v))
             ELSE create_args_loop(Tail(items), create_args, options_dict)

_create_args_from_config(config) ==
    LET options0 == IF DictHas(config, "options") /\ DictGet(config, "options").t = "dict"
                    THEN DictGet(config, "options").d
                    ELSE <<>>
        looped == create_args_loop(config, <<>>, options0)
    IN  IF looped[2] # <<>>
        THEN DictSet(looped[1], "options", VDict(looped[2]))
        ELSE looped[1]

\* a slip: options_dict = options_map, without the copy
config_options_aliased(config) ==
    VDict(create_args_loop(config, <<>>, DictGet(config, "options").d)[2])

\* the mapping config["options"] after _create_args_from_config(config) has run:
\* options_dict is a copy of it (dict(options_map), line 124), so the writes of
\* line 133 do not reach it
config_options_after(config) == DictGet(config, "options")

\* lines 522-524: self._create_args after _process_create_args.  copy() is shallow:
\* update() writes to the copy, and the copy's "options" value is the stored mapping
\* itself unless extra_create_args replaced it
create_args_after_call(self_create_args, extra_create_args) ==
    IF /\ DictHas(self_create_args, "options")
       /\ DictGet(self_create_args, "options").t = "dict"
       /\ ~DictHas(extra_create_args, "options")
    THEN DictSet(self_create_args, "options",
                 config_options_after(DictUpdate(self_create_args, extra_create_args)))
    ELSE self_create_args

(***************************************************************************)
(* Message translation.                                                    *)
(***************************************************************************)
Message(role, content, images, tool_calls) ==
    [role |-> role, content |-> content, images |-> images, tool_calls |-> tool_calls]

\* Image.to_base64()
to_base64(img) == "b64:" \o img

\* json.loads on the argument strings assistant messages carry
JsonLoadable(s) == s \in {"{}", "{x:1}"}

_func_args_to_ollama_args(args) == IF args = "{}" THEN "" ELSE "x:1"

\* json.dumps of a backend arguments mapping
JsonDumps(a) == "{" \o a \o "}"

RECURSIVE user_parts_loop(_, _)
\* the loop "for part in message.content" of user_message_to_ollama
user_parts_loop(parts, ollama_messages) ==
    IF parts = <<>> THEN Ok(ollama_messages)
    ELSE LET part == Head(parts)
             n == Len(ollama_messages)
         IN  IF part.kind = "str"
             THEN user_parts_loop(Tail(parts),
                      Append(ollama_messages, Message("user", Some(part.v), None, None)))
             ELSE IF part.kind = "Image"
             THEN IF ollama_messages = <<>>
                  THEN user_parts_loop(Tail(parts),
                           <<Message("user", None, Some(<<to_base64(part.v)>>), None)>>)
                  ELSE IF IsNone(ollama_messages[n].images)
                  THEN user_parts_loop(Tail(parts),
                           [ollama_messages EXCEPT ![n].images = Some(<<to_base64(part.v)>>)])
                  ELSE user_parts_loop(Tail(parts),
                           [ollama_messages EXCEPT
                               ![n].images = Some(Append(Val(@), to_base64(part.v)))])
             ELSE Raise("InvalidContentPart")

RECURSIVE user_parts_loop_own_message(_, _)
\* a different design: every image part starts a message of its own
user_parts_loop_own_message(parts, ollama_messages) ==
    IF parts = <<>> THEN Ok(ollama_messages)
    ELSE LET part == Head(parts)
         IN  IF part.kind = "str"
             THEN user_parts_loop_own_message(Tail(parts),
                      Append(ollama_messages, Message("user", Some(part.v), None, None)))
             ELSE IF part.kind = "Image"
             THEN user_parts_loop_own_message(Tail(parts),
                      Append(ollama_messages,
                             Message("user", None, Some(<<to_base64(part.v)>>), None)))
             ELSE Raise("InvalidContentPart")

user_message_to_ollama_own_message(message) ==
    IF ~valid_name(message.source) THEN Raise("InvalidName")
    ELSE IF message.content.kind = "str"
    THEN Ok(<<Message("user", Some(message.content.text), None, None)>>)
    ELSE user_parts_loop_own_message(message.content.parts, <<>>)

RECURSIVE user_parts_loop_text_only(_, _)
\* a slip: an image goes to the last message only while that message has text
user_parts_loop_text_only(parts, ollama_messages) ==
    IF parts = <<>> THEN Ok(ollama_messages)
    ELSE LET part == Head(parts)
             n == Len(ollama_messages)
         IN  IF part.kind = "str"
             THEN user_parts_loop_text_only(Tail(parts),
                      Append(ollama_messages, Message("user", Some(part.v), None, None)))
             ELSE IF part.kind = "Image"
             THEN IF ollama_messages = <<>> \/ IsNone(ollama_messages[n].content)
                  THEN user_parts_loop_text_only(Tail(parts),
                           Append(ollama_messages,
                                  Message("user", None, Some(<<to_base64(part.v)>>), None)))
                  ELSE IF IsNone(ollama_messages[n].images)
                  THEN user_parts_loop_text_only(Tail(parts),
                           [ollama_messages EXCEPT ![n].images = Some(<<to_base64(part.v)>>)])
                  ELSE user_parts_loop_text_only(Tail(parts),
                           [ollama_messages EXCEPT
                               ![n].images = Some(Append(Val(@), to_base64(part.v)))])
             ELSE Raise("InvalidContentPart")

user_message_to_ollama_text_only(message) ==
    IF ~valid_name(message.source) THEN Raise("InvalidName")
    ELSE IF message.content.kind = "str"
    THEN Ok(<<Message("user", Some(message.content.text), None, None)>>)
    ELSE user_parts_loop_text_only(message.content.parts, <<>>)

user_message_to_ollama(message) ==
    IF ~valid_name(message.source) THEN Raise("InvalidName")
    ELSE IF message.content.kind = "str"
    THEN Ok(<<Message("user", Some(message.content.text), None, None)>>)
    ELSE user_parts_loop(message.content.parts, <<>>)

system_message_to_ollama(message) ==
    Message("system", Some(message.content.text), None, None)

func_call_to_ollama(fc) ==
    [name |-> fc.name, arguments |-> _func_args_to_ollama_args(fc.arguments)]

tool_message_to_ollama(message) ==
    [i \in 1..Len(message.content.parts) |->
        Message("tool", Some(message.content.parts[i].content), None, None)]

assistant_message_to_ollama(message) ==
    IF ~valid_name(message.source) THEN Raise("InvalidName")
    ELSE IF message.content.kind = "list"
    THEN IF \E i \in 1..Len(message.content.parts) :
                ~JsonLoadable(message.content.parts[i].arguments)
         THEN Raise("JSONDecodeError")
         ELSE Ok(Message("assistant", None, None,
                    Some([i \in 1..Len(message.content.parts) |->
                             func_call_to_ollama(message.content.parts[i])])))
    ELSE Ok(Message("assistant", Some(message.content.text), None, None))

to_ollama_type(message) ==
    IF message.type = "SystemMessage" THEN Ok(<<system_message_to_ollama(message)>>)
    ELSE IF message.type = "UserMessage" THEN user_message_to_ollama(message)
    ELSE IF message.type = "AssistantMessage"
    THEN LET r == assistant_message_to_ollama(message)
         IN  IF r.err # "" THEN r ELSE Ok(<<r.val>>)
    ELSE Ok(tool_message_to_ollama(message))

RECURSIVE translate_messages(_)
\* [to_ollama_type(m) for m in messages], flattened; the first raise wins
translate_messages(messages) ==
    IF messages = <<>> THEN Ok(<<>>)
    ELSE LET r == to_ollama_type(Head(messages))
         IN  IF r.err # "" THEN r
             ELSE LET rest == translate_messages(Tail(messages))
                  IN  IF rest.err # "" THEN rest ELSE Ok(r.val \o rest.val)

\* a slip: only the first part is looked at
has_image_first_part(message) ==
    /\ message.type = "UserMessage"
    /\ message.content.kind = "list"
    /\ message.content.parts # <<>>
    /\ message.content.parts[1].kind = "Image"

\* any(isinstance(x, Image) for x in message.content) on a UserMessage with a list
has_image(message) ==
    /\ message.type = "UserMessage"
    /\ message.content.kind = "list"
    /\ \E i \in 1..Len(message.content.parts) : message.content.parts[i].kind = "Image"

\* a slip: the total is overwritten with the call's usage
_add_usage_overwrite(usage1, usage2) ==
    [prompt_tokens |-> usage2.prompt_tokens,
     completion_tokens |-> usage2.completion_tokens]

\* a slip: the prompt tokens are added to both counts
_add_usage_prompt_twice(usage1, usage2) ==
    [prompt_tokens |-> usage1.prompt_tokens + usage2.prompt_tokens,
     completion_tokens |-> usage1.completion_tokens + usage2.prompt_tokens]

_add_usage(usage1, usage2) ==
    [prompt_tokens |-> usage1.prompt_tokens + usage2.prompt_tokens,
     completion_tokens |-> usage1.completion_tokens + usage2.completion_tokens]

(***************************************************************************)
(* calculate_vision_tokens.  aspect_ratio is width / height; int() of the   *)
(* scaled edge is the integer quotient.                                     *)
(***************************************************************************)
MAX_LONG_EDGE == 2048

BASE_TOKEN_COUNT == 85

TOKENS_PER_TILE == 170

MAX_SHORT_EDGE == 768

TILE_SIZE == 512

\* math.ceil(edge / TILE_SIZE)
tiles(edge) == (edge + TILE_SIZE - 1) \div TILE_SIZE

\* lines 260-269: fit within MAX_LONG_EDGE x MAX_LONG_EDGE
long_edge_scaled(size) ==
    LET width == size[1]
        height == size[2]
    IN  IF width > MAX_LONG_EDGE \/ height > MAX_LONG_EDGE
        THEN IF width > height
             THEN <<MAX_LONG_EDGE, (MAX_LONG_EDGE * height) \div width>>
             ELSE <<(MAX_LONG_EDGE * width) \div height, MAX_LONG_EDGE>>
        ELSE size

\* lines 272-281: shortest side to MAX_SHORT_EDGE when both exceed it
short_edge_scaled(size) ==
    LET width == size[1]
        height == size[2]
    IN  IF width > MAX_SHORT_EDGE /\ height > MAX_SHORT_EDGE
        THEN IF width > height
             THEN <<(MAX_SHORT_EDGE * width) \div height, MAX_SHORT_EDGE>>
             ELSE <<MAX_SHORT_EDGE, (MAX_SHORT_EDGE * height) \div width>>
        ELSE size

\* a slip: the short-edge step is left out
calculate_vision_tokens_long_edge_only(size, detail) ==
    IF detail = "low" THEN Ok(BASE_TOKEN_COUNT)
    ELSE LET scaled == long_edge_scaled(size)
         IN  IF scaled[2] = 0 THEN Raise("ZeroDivisionError")
             ELSE Ok(BASE_TOKEN_COUNT + TOKENS_PER_TILE * (tiles(scaled[1]) * tiles(scaled[2])))

calculate_vision_tokens(size, detail) ==
    IF detail = "low" THEN Ok(BASE_TOKEN_COUNT)
    ELSE LET scaled == long_edge_scaled(size)
             resized == short_edge_scaled(scaled)
         IN  IF scaled[2] = 0 THEN Raise("ZeroDivisionError")
             ELSE Ok(BASE_TOKEN_COUNT
                        + TOKENS_PER_TILE * (tiles(resized[1]) * tiles(resized[2])))

(***************************************************************************)
(* Tool schema conversion.                                                 *)
(***************************************************************************)
RECURSIVE first_any_of(_)
\* next((opt.get("type") for opt in anyOf if opt.get("type") != "null"), None)
first_any_of(alts) ==
    IF alts = <<>> THEN None
    ELSE IF Head(alts) # Some("null") THEN Head(alts)
    ELSE first_any_of(Tail(alts))

convert_property(prop_schema) ==
    LET t0 == prop_schema.type
        t1 == IF IsNone(t0) /\ ~IsNone(prop_schema.anyOf)
              THEN first_any_of(Val(prop_schema.anyOf))
              ELSE t0
        prop_type == IF IsNone(t1) \/ t1 = Some("") THEN "string" ELSE Val(t1)
    IN  [pname |-> prop_schema.pname, type |-> prop_type,
         description |-> prop_schema.description]

convert_tool(tool_schema) ==
    LET parameters == tool_schema.parameters
    IN  [name |-> tool_schema.name,
         description |-> IF IsNone(tool_schema.description) THEN ""
                         ELSE Val(tool_schema.description),
         required |-> IF ~IsNone(parameters) THEN Val(parameters).required ELSE None,
         properties |-> IF IsNone(parameters) THEN None
                        ELSE Some([i \in 1..Len(Val(parameters).properties) |->
                                      convert_property(Val(parameters).properties[i])])]

convert_tools(tools) ==
    LET result == [i \in 1..Len(tools) |-> convert_tool(tools[i])]
    IN  IF \E i \in 1..Len(result) : ~valid_name(result[i].name)
        THEN Raise("InvalidName")
        ELSE Ok(result)

normalize_stop_reason(stop_reason) ==
    IF IsNone(stop_reason) THEN "unknown"
    ELSE LET lowered == Lower(Val(stop_reason))
         IN  CASE lowered = "stop" -> "stop"
               [] lowered = "end_turn" -> "stop"
               [] lowered = "tool_calls" -> "function_calls"
               [] OTHER -> "unknown"

(***************************************************************************)
(* The request builder.                                                    *)
(***************************************************************************)
VBool(b) == [t |-> "bool", s |-> IF b THEN "True" ELSE "False", d |-> <<>>]

JTrue == Some(VBool(TRUE))

JFalse == Some(VBool(FALSE))

CreateParams(messages, tools, format, create_args) ==
    [messages |-> messages, tools |-> tools, format |-> format, create_args |-> create_args]

\* a slip: "none" is not told apart from "auto"
resolve_tool_choice_none_as_auto(tools, tool_choice) ==
    IF tool_choice.kind = "tool" THEN convert_tools(<<tool_choice.tool>>)
    ELSE IF tool_choice.kind = "required"
    THEN LET converted_tools == convert_tools(tools)
         IN  IF converted_tools.err # "" THEN converted_tools
             ELSE IF Len(converted_tools.val) = 0 THEN Raise("NoToolsProvided")
             ELSE converted_tools
    ELSE convert_tools(tools)

\* lines 588-603: the tools to send, by tool_choice
resolve_tool_choice(tools, tool_choice) ==
    IF tool_choice.kind = "tool" THEN convert_tools(<<tool_choice.tool>>)
    ELSE IF tool_choice.kind = "none" THEN Ok(<<>>)
    ELSE IF tool_choice.kind = "required"
    THEN LET converted_tools == convert_tools(tools)
         IN  IF converted_tools.err # "" THEN converted_tools
             ELSE IF Len(converted_tools.val) = 0 THEN Raise("NoToolsProvided")
             ELSE converted_tools
    ELSE convert_tools(tools)

\* a slip: json_output=False leaves the directive as it was
json_output_format_false_kept(json_output, response_format_value) ==
    IF IsNone(json_output) THEN response_format_value
    ELSE IF json_output = JTrue THEN Some(VStr("json"))
    ELSE IF json_output = JFalse THEN response_format_value
    ELSE Some(model_json_schema(Val(json_output)))

\* lines 542-560: the format directive after the json_output block
json_output_format(json_output, response_format_value) ==
    IF IsNone(json_output) THEN response_format_value
    ELSE IF json_output = JTrue THEN Some(VStr("json"))
    ELSE IF json_output = JFalse THEN None
    ELSE Some(model_json_schema(Val(json_output)))

_process_create_args(self_create_args, minfo, messages, tools, tool_choice, json_output, extra_create_args) ==
    LET merged == _create_args_from_config(DictUpdate(self_create_args, extra_create_args))
        has_rf == DictHas(merged, "response_format")
        value == DictGet(merged, "response_format")
        rfv1 == IF has_rf THEN Some(model_json_schema(value)) ELSE None
        create_args1 == IF has_rf THEN DictDel(merged, "response_format") ELSE merged
        rfv2 == json_output_format(json_output, rfv1)
        has_format == DictHas(create_args1, "format")
        rfv3 == IF has_format THEN Some(DictGet(create_args1, "format")) ELSE rfv2
        create_args2 == IF has_format THEN DictDel(create_args1, "format") ELSE create_args1
        ollama_messages == translate_messages(messages)
        converted_tools == resolve_tool_choice(tools, tool_choice)
    IN  IF has_rf /\ ~IsModelClass(value) THEN Raise("ResponseFormatNotAModel")
        ELSE IF ~IsNone(json_output) /\ ~minfo.json_output /\ json_output = JTrue
        THEN Raise("UnsupportedCapability")
        ELSE IF ~IsNone(json_output) /\ json_output \notin {JTrue, JFalse}
                /\ ~IsModelClass(Val(json_output))
        THEN Raise("JsonOutputType")
        ELSE IF ~IsNone(json_output) /\ json_output \notin {JTrue, JFalse}
                /\ ~IsNone(rfv1)
        THEN Raise("ConflictingFormatDirective")
        ELSE IF has_format /\ ~IsNone(json_output) THEN Raise("ConflictingFormatDirective")
        ELSE IF has_format /\ ~IsNone(rfv2) THEN Raise("AssertionError")
        ELSE IF ~minfo.vision /\ \E i \in 1..Len(messages) : has_image(messages[i])
        THEN Raise("UnsupportedCapability")
        ELSE IF ~minfo.json_output /\ json_output = JTrue THEN Raise("UnsupportedCapability")
        ELSE IF ollama_messages.err # "" THEN ollama_messages
        ELSE IF ~minfo.function_calling /\ Len(tools) > 0 THEN Raise("UnsupportedCapability")
        ELSE IF converted_tools.err # "" THEN converted_tools
        ELSE Ok(CreateParams(ollama_messages.val, converted_tools.val, rfv3, create_args2))

\* lines 635-642, 743-750: a key of create_args that repeats a keyword of the chat
\* call makes the call expression raise TypeError
duplicate_keyword(create_args) ==
    DictKeys(create_args) \cap {"messages", "tools", "stream", "format"} # {}

\* the arguments of self._client.chat(...)
chat_request(create_params, stream) ==
    [messages |-> create_params.messages,
     tools |-> IF Len(create_params.tools) > 0 THEN Some(create_params.tools) ELSE None,
     stream |-> stream,
     format |-> create_params.format,
     create_args |-> create_params.create_args]

(***************************************************************************)
(* Translating backend responses.                                          *)
(***************************************************************************)
RequestUsage(prompt_tokens, completion_tokens) ==
    [prompt_tokens |-> prompt_tokens, completion_tokens |-> completion_tokens]

FunctionCall(id, arguments, name) == [id |-> id, arguments |-> arguments, name |-> name]

StrContent(text) == [kind |-> "str", text |-> text, calls |-> <<>>]

ListContent(calls) == [kind |-> "list", text |-> "", calls |-> calls]

CreateResult(finish_reason, content, usage, thought) ==
    [finish_reason |-> finish_reason, content |-> content, usage |-> usage,
     cached |-> FALSE, thought |-> thought]

\* [FunctionCall(id=str(self._tool_id), ...) for x in tool_calls]
to_function_calls(tool_calls, tool_id) ==
    [i \in 1..Len(tool_calls) |->
        FunctionCall(ToString(tool_id), JsonDumps(tool_calls[i].arguments),
                     normalize_name(tool_calls[i].name))]

\* lines 648-652
create_usage(result) ==
    RequestUsage(IF ~IsNone(result.prompt_eval_count) THEN Val(result.prompt_eval_count) ELSE 0,
                 IF ~IsNone(result.eval_count) THEN Val(result.eval_count) ELSE 0)

\* lines 648-713: the CreateResult of create for a backend response
create_response(result, tool_id) ==
    IF ~IsNone(result.message.tool_calls)
    THEN CreateResult(
             normalize_stop_reason(Some("tool_calls")),
             ListContent(to_function_calls(Val(result.message.tool_calls), tool_id)),
             create_usage(result),
             IF ~IsNone(result.message.content) /\ result.message.content # Some("")
             THEN result.message.content ELSE None)
    ELSE CreateResult(
             normalize_stop_reason(
                 Some(IF IsNone(result.done_reason) THEN "" ELSE Val(result.done_reason))),
             StrContent(IF IsNone(result.message.content) THEN ""
                        ELSE Val(result.message.content)),
             create_usage(result),
             None)

RECURSIVE join(_)
\* "".join(chunks)
join(chunks) == IF chunks = <<>> THEN "" ELSE Head(chunks) \o join(Tail(chunks))

\* "chunk and chunk.<count>": the count of the last chunk, 0 when it is falsy
last_count(chunk, field) ==
    IF ~IsNone(chunk) /\ ~IsNone(Val(chunk)[field]) /\ Val(Val(chunk)[field]) # 0
    THEN Val(Val(chunk)[field]) ELSE 0

\* lines 819-837: completion tokens by aggregation branch
stream_completion_tokens(chunk, content_chunks, full_tool_calls) ==
    IF Len(content_chunks) > 0 /\ Len(full_tool_calls) > 0
    THEN last_count(chunk, "eval_count")
    ELSE IF Len(content_chunks) > 1
    THEN last_count(chunk, "eval_count")
    ELSE 0

\* a plausible rewrite: one text fragment is enough to make the content text
stream_content_any_text(content_chunks, full_tool_calls) ==
    IF Len(content_chunks) > 0 /\ Len(full_tool_calls) > 0
    THEN ListContent(full_tool_calls)
    ELSE IF Len(content_chunks) > 0
    THEN StrContent(join(content_chunks))
    ELSE ListContent(full_tool_calls)

\* lines 819-837: final content by aggregation branch
stream_content(content_chunks, full_tool_calls) ==
    IF Len(content_chunks) > 0 /\ Len(full_tool_calls) > 0
    THEN ListContent(full_tool_calls)
    ELSE IF Len(content_chunks) > 1
    THEN StrContent(join(content_chunks))
    ELSE ListContent(full_tool_calls)

\* lines 814-851: the final CreateResult of create_stream
stream_response(f) ==
    CreateResult(
        normalize_stop_reason(f.stop_reason),
        stream_content(f.content_chunks, f.full_tool_calls),
        RequestUsage(last_count(f.chunk, "prompt_eval_count"),
                     stream_completion_tokens(f.chunk, f.content_chunks, f.full_tool_calls)),
        IF Len(f.content_chunks) > 0 /\ Len(f.full_tool_calls) > 0
        THEN Some(join(f.content_chunks)) ELSE None)

\* the locals of create_stream at lines 756-761
NewFrame ==
    [chunk |-> None, stop_reason |-> None, content_chunks |-> <<>>,
     full_tool_calls |-> <<>>, n |-> 0]

\* a slip: every chunk flagged done overwrites the stop reason
on_chunk_last_writer(f, chunk) ==
    [f EXCEPT
        !.chunk = Some(chunk),
        !.n = @ + 1,
        !.stop_reason = IF chunk.done THEN chunk.done_reason ELSE @,
        !.content_chunks = IF ~IsNone(chunk.message.content)
                           THEN Append(@, Val(chunk.message.content)) ELSE @]

\* lines 778-781: stop_reason and content_chunks after a chunk arrives
on_chunk(f, chunk) ==
    [f EXCEPT
        !.chunk = Some(chunk),
        !.n = @ + 1,
        !.stop_reason = IF chunk.done /\ IsNone(f.stop_reason) THEN chunk.done_reason ELSE @,
        !.content_chunks = IF ~IsNone(chunk.message.content)
                           THEN Append(@, Val(chunk.message.content)) ELSE @]

\* lines 786-796: the tool calls of the current chunk are accumulated
on_tool_calls(f, tool_id) ==
    LET chunk == Val(f.chunk)
    IN  IF ~IsNone(chunk.message.tool_calls)
        THEN [f EXCEPT !.full_tool_calls =
                 @ \o to_function_calls(Val(chunk.message.tool_calls), tool_id)]
        ELSE f

\* a slip: the emptiness test is dropped
yields_text_any(chunk) == ~IsNone(chunk.message.content)

\* a slip: the text of the chunk flagged done is not yielded
yields_text_unless_done(chunk) ==
    ~IsNone(chunk.message.content) /\ Len(Val(chunk.message.content)) > 0 /\ ~chunk.done

\* line 782: the chunk's text is yielded
yields_text(chunk) ==
    ~IsNone(chunk.message.content) /\ Len(Val(chunk.message.content)) > 0

(***************************************************************************)
(* Bounds and the inputs the callers and the backend are drawn from.       *)
(***************************************************************************)
\* chunks a stream delivers before it ends
MaxChunks == 2

\* concurrent calls on the client
NumCalls == 2

ToolF == [name |-> <<"f">>, description |-> Some("adds"), parameters |-> None]

ToolG ==
    [name |-> <<"g", "_", "1">>, description |-> None,
     parameters |-> Some(
        [properties |-> <<[pname |-> "x", type |-> None,
                           anyOf |-> Some(<<Some("null"), Some("integer")>>),
                           description |-> Some("an x")]>>,
         required |-> Some(<<"x">>)])]

ToolBad == [name |-> <<"f", "!">>, description |-> None, parameters |-> None]

Auto == [kind |-> "auto", tool |-> <<>>]

Required == [kind |-> "required", tool |-> <<>>]

NoTools == [kind |-> "none", tool |-> <<>>]

Choose(tool) == [kind |-> "tool", tool |-> tool]

UserMessage(source, content) ==
    [type |-> "UserMessage", source |-> source, content |-> content]

Text(s) == [kind |-> "str", text |-> s, parts |-> <<>>]

Parts(ps) == [kind |-> "list", text |-> "", parts |-> ps]

MsgText == UserMessage(<<"u", "1">>, Text("hello"))

MsgImage ==
    UserMessage(<<"u", "1">>,
                Parts(<<[kind |-> "str", v |-> "hello"], [kind |-> "Image", v |-> "A"]>>))

MsgBadSource == UserMessage(<<"u", " ", "1">>, Text("hello"))

MsgBadPart == UserMessage(<<"u", "1">>, Parts(<<[kind |-> "other", v |-> "x"]>>))

Person == VType("Person")

Request(kind, messages, tools, tool_choice, json_output, extra_create_args, token) ==
    [kind |-> kind, messages |-> messages, tools |-> tools, tool_choice |-> tool_choice,
     json_output |-> json_output, extra_create_args |-> extra_create_args,
     cancellation_token |-> token]

PlainCreate == Request("create", <<MsgText>>, <<>>, Auto, None, <<>>, TRUE)

PlainStream == Request("create_stream", <<MsgText>>, <<>>, Auto, None, <<>>, TRUE)

BadStream == Request("create_stream", <<MsgBadSource>>, <<>>, Auto, None, <<>>, TRUE)

ToolCallF == [name |-> <<"f">>, arguments |-> "x:1"]

ToolCallOdd == [name |-> <<"g", ".", "1">>, arguments |-> ""]

\* a model-produced name one character longer than the limit
ToolCallLong == [name |-> [i \in 1..(MaxNameLen + 1) |-> "a"], arguments |-> ""]

Response(content, tool_calls, done_reason, prompt_eval_count, eval_count) ==
    [message |-> [content |-> content, tool_calls |-> tool_calls],
     done |-> TRUE, done_reason |-> done_reason,
     prompt_eval_count |-> prompt_eval_count, eval_count |-> eval_count]

Chunk(content, tool_calls, done, done_reason, prompt_eval_count, eval_count) ==
    [message |-> [content |-> content, tool_calls |-> tool_calls],
     done |-> done, done_reason |-> done_reason,
     prompt_eval_count |-> prompt_eval_count, eval_count |-> eval_count]

AllCapabilities == [vision |-> TRUE, json_output |-> TRUE, function_calling |-> TRUE]

ModelOnly == <<<<"model", VStr("llama3")>>>>

\* requests over the kinds of message, tool list and tool_choice
MessageToolRequests ==
    {Request("create", <<m>>, ts, tc, None, <<>>, TRUE) :
        m \in {MsgText, MsgImage, MsgBadSource, MsgBadPart},
        ts \in {<<>>, <<ToolF>>, <<ToolF, ToolG>>, <<ToolG, ToolF>>, <<ToolBad>>},
        tc \in {Auto, Required, NoTools, Choose(ToolG), Choose(ToolBad)}}

\* requests over the kinds of format directive
FormatRequests ==
    {Request("create", <<m>>, ts, tc, jo, ex, TRUE) :
        m \in {MsgText, MsgImage},
        ts \in {<<>>, <<ToolF>>},
        tc \in {Auto, Required},
        jo \in {None, JTrue, JFalse, Some(Person)},
        ex \in {<<>>,
                <<<<"format", VStr("json")>>>>,
                <<<<"Format", VSchema("Shape")>>>>,
                <<<<"response_format", Person>>>>,
                <<<<"response_format", VDict(<<<<"type", VStr("json_object")>>>>)>>>>,
                <<<<"response_format", Person>>, <<"format", VStr("")>>>>,
                <<<<"temperature", VStr("0.5")>>, <<"foo", VStr("bar")>>>>}}

\* several calls at once, few kinds of request and of backend answer
EnvConc ==
    [ncalls |-> NumCalls,
     model_infos |-> {AllCapabilities},
     create_args |-> {ModelOnly},
     requests |-> {PlainCreate, PlainStream, BadStream},
     responses |-> {Response(Some("hi"), None, Some("stop"), Some(10), Some(5)),
                    Response(None, Some(<<ToolCallF>>), Some("stop"), Some(20), Some(3))},
     chunks |-> {Chunk(Some("Hel"), None, FALSE, None, None, None),
                 Chunk(Some(""), Some(<<ToolCallF>>), TRUE, Some("stop"), Some(20), Some(3))}]

\* one call, every kind of request
EnvArgs ==
    [ncalls |-> 1,
     model_infos |-> {AllCapabilities,
                      [AllCapabilities EXCEPT !.vision = FALSE],
                      [AllCapabilities EXCEPT !.json_output = FALSE],
                      [AllCapabilities EXCEPT !.function_calling = FALSE]},
     create_args |-> {ModelOnly,
                      ModelOnly \o <<<<"format", VStr("json")>>>>,
                      ModelOnly \o <<<<"response_format", Person>>>>},
     requests |-> {PlainStream, BadStream} \cup MessageToolRequests \cup FormatRequests,
     responses |-> {Response(Some("hi"), None, Some("stop"), Some(10), Some(5))},
     chunks |-> {Chunk(Some("Hel"), None, TRUE, Some("stop"), Some(20), Some(3))}]

\* one streaming or plain call, every kind of backend answer
EnvStream ==
    [ncalls |-> 1,
     model_infos |-> {AllCapabilities},
     create_args |-> {ModelOnly},
     requests |-> {PlainCreate, PlainStream, BadStream,
                   [PlainStream EXCEPT !.cancellation_token = FALSE]},
     responses |->
        {Response(c, tcs, dr, counts[1], counts[2]) :
            c \in {None, Some(""), Some("hi")},
            tcs \in {None, Some(<<>>), Some(<<ToolCallF, ToolCallOdd, ToolCallLong>>)},
            dr \in {None, Some(""), Some("stop"), Some("End_Turn"), Some("tool_calls"),
                    Some("length")},
            counts \in {<<None, None>>, <<Some(0), Some(0)>>, <<Some(10), Some(5)>>}},
     chunks |->
        {Chunk(c, tcs, d[1], d[2], d[3], d[4]) :
            c \in {None, Some(""), Some("Hel"), Some("lo")},
            tcs \in {None, Some(<<ToolCallOdd>>)},
            d \in {<<FALSE, None, None, None>>,
                   <<FALSE, Some("tool_calls"), None, Some(3)>>,
                   <<TRUE, Some("stop"), Some(20), Some(3)>>,
                   <<TRUE, Some("length"), Some(10), None>>,
                   <<TRUE, None, Some(0), Some(7)>>}}]

\* keyword arguments a client is constructed with
ConfigControl ==
    ModelOnly \o <<<<"temperature", VStr("0.5")>>, <<"keep_alive", VStr("5m")>>>>

ConfigOptions ==
    ModelOnly \o <<<<"options", VDict(<<<<"seed", VStr("1")>>>>)>>,
                   <<"Temperature", VStr("0.5")>>, <<"foo", VStr("bar")>>>>

\* per-call extra_create_args
ExtraArgs ==
    {<<>>,
     <<<<"temperature", VStr("0.9")>>>>,
     <<<<"Seed", VStr("7")>>, <<"keep_alive", VStr("1m")>>>>,
     <<<<"foo", VStr("baz")>>>>,
     <<<<"options", VDict(<<<<"top_k", VStr("40")>>>>)>>>>,
     <<<<"temperature", VStr("0.9")>>, <<"options", VDict(<<<<"seed", VStr("2")>>>>)>>>>,
     <<<<"model", VStr("other")>>>>,
     <<<<"stream", VStr("True")>>>>}

\* calls in sequence on clients built with control parameters and options
EnvMerge ==
    [ncalls |-> NumCalls,
     model_infos |-> {AllCapabilities},
     create_args |-> {_create_args_from_config(config) :
                         config \in {ModelOnly, ConfigControl, ConfigOptions}},
     requests |-> {Request("create", <<MsgText>>, <<>>, Auto, None, ex, FALSE) :
                      ex \in ExtraArgs}
                  \cup {Request("create_stream", <<MsgText>>, <<>>, Auto, None,
                                <<<<"temperature", VStr("0.9")>>>>, TRUE)},
     responses |-> {Response(Some("hi"), None, Some("stop"), Some(10), Some(5))},
     chunks |-> {Chunk(Some("Hel"), None, TRUE, Some("stop"), Some(20), Some(3))}]

\* no calls on the client: the module-level functions are applied on their own
EnvNone ==
    [ncalls |-> 0,
     model_infos |-> {AllCapabilities},
     create_args |-> {ModelOnly},
     requests |-> {},
     responses |-> {},
     chunks |-> {}]

\* parts of a multi-part UserMessage content
MaxParts == 3

ContentParts ==
    {[kind |-> "str", v |-> "hello"], [kind |-> "str", v |-> "x"],
     [kind |-> "Image", v |-> "A"], [kind |-> "Image", v |-> "B"]}

PartLists == UNION {[1..n -> ContentParts] : n \in 0..MaxParts}

\* alternatives of an anyOf list: a type, or no type field at all (None)
AnyOfAlternatives == {Some("null"), Some("integer"), Some("string"), None}

AnyOfLists == UNION {[1..n -> AnyOfAlternatives] : n \in 1..2}

PropertySchemas ==
    {[pname |-> "x", type |-> t, anyOf |-> alts, description |-> Some("an x")] :
        t \in {None, Some("integer")},
        alts \in {None} \cup {Some(l) : l \in AnyOfLists}}

ToolWith(prop_schema) ==
    [name |-> <<"g">>, description |-> None,
     parameters |-> Some([properties |-> <<prop_schema>>, required |-> None])]

\* image.image.size
ImageEdges == {1, 512, 513, 768, 769, 1024, 2048, 2049, 4096}

(***************************************************************************)
(* The state: one client, and the create / create_stream calls made on it. *)
(***************************************************************************)
VARIABLES
    env,            \* the scenario: which callers and backend answers there are
    model_info,     \* self._model_info
    _create_args,   \* self._create_args
    _total_usage,   \* self._total_usage
    _actual_usage,  \* self._actual_usage
    _tool_id,       \* self._tool_id
    pc,             \* per call: where the coroutine is suspended
    args,           \* per call: the arguments it was called with
    sent,           \* per call: the chat request issued to the backend, if any
    err,            \* per call: the exception raised to the caller, "" if none
    frame,          \* per call: the locals of create_stream
    received,       \* per call: the responses / chunks the backend delivered to it
    out,            \* per call: the text outputs yielded to the caller so far
    result,         \* per call: the CreateResult returned or yielded last
    fn_call         \* the module-level function applied last: its argument and result

vars == <<env, model_info, _create_args, _total_usage, _actual_usage, _tool_id,
          pc, args, sent, err, frame, received, out, result, fn_call>>

client == <<env, model_info, _create_args>>

\* the inputs of the scenario the run is in
E == CASE env = "conc" -> EnvConc
       [] env = "args" -> EnvArgs
       [] env = "merge" -> EnvMerge
       [] env = "none" -> EnvNone
       [] OTHER -> EnvStream

Calls == 1..E.ncalls

Awaiting == {"await_chat", "await_stream", "await_chunk"}

\* no module-level function has been applied
NoCall == [fn |-> "", arg |-> <<>>, ret |-> <<>>]

NoArgs ==
    [kind |-> "", messages |-> <<>>, tools |-> <<>>,
     tool_choice |-> [kind |-> "auto", tool |-> <<>>], json_output |-> None,
     extra_create_args |-> <<>>, cancellation_token |-> FALSE]

\* lines 500-504: the client right after construction
InitClient(scenario) ==
    /\ env = scenario
    /\ model_info \in E.model_infos
    /\ _create_args \in E.create_args
    /\ _total_usage = RequestUsage(0, 0)
    /\ _actual_usage = RequestUsage(0, 0)
    /\ _tool_id = 0
    /\ pc = [c \in Calls |-> "idle"]
    /\ args = [c \in Calls |-> NoArgs]
    /\ sent = [c \in Calls |-> None]
    /\ err = [c \in Calls |-> ""]
    /\ frame = [c \in Calls |-> NewFrame]
    /\ received = [c \in Calls |-> <<>>]
    /\ out = [c \in Calls |-> <<>>]
    /\ result = [c \in Calls |-> None]
    /\ fn_call = NoCall

\* lines 627-646 and 735-754: build the request, then issue the backend call
Begin(c, a, stream) ==
    LET create_params ==
            _process_create_args(_create_args, model_info, a.messages, a.tools,
                                 a.tool_choice, a.json_output, a.extra_create_args)
    IN  /\ pc[c] = "idle"
        /\ args' = [args EXCEPT ![c] = a]
        /\ _create_args' = create_args_after_call(_create_args, a.extra_create_args)
        /\ IF create_params.err # ""
           THEN /\ pc' = [pc EXCEPT ![c] = "failed"]
                /\ err' = [err EXCEPT ![c] = create_params.err]
                /\ sent' = sent
           ELSE IF duplicate_keyword(create_params.val.create_args)
           THEN /\ pc' = [pc EXCEPT ![c] = "failed"]
                /\ err' = [err EXCEPT ![c] = "TypeError"]
                /\ sent' = sent
           ELSE /\ pc' = [pc EXCEPT ![c] = IF stream THEN "await_stream" ELSE "await_chat"]
                /\ err' = err
                /\ sent' = [sent EXCEPT ![c] = Some(chat_request(create_params.val, stream))]
        /\ UNCHANGED <<env, model_info, fn_call, _total_usage, _actual_usage, _tool_id,
                       frame, received, out, result>>

\* create is called (lines 612-646)
Create(c) ==
    \E a \in E.requests : a.kind = "create" /\ Begin(c, a, FALSE)

\* create_stream is called and its generator started (lines 720-754)
CreateStream(c) ==
    \E a \in E.requests : a.kind = "create_stream" /\ Begin(c, a, TRUE)

\* create resumes with the backend's response (lines 646-718)
CreateReturns(c) ==
    \E response \in E.responses :
        LET r == create_response(response, _tool_id)
        IN  /\ pc[c] = "await_chat"
            /\ _tool_id' = IF ~IsNone(response.message.tool_calls)
                           THEN _tool_id + 1 ELSE _tool_id
            /\ _total_usage' = _add_usage(_total_usage, r.usage)
            /\ _actual_usage' = _add_usage(_actual_usage, r.usage)
            /\ received' = [received EXCEPT ![c] = Append(@, response)]
            /\ result' = [result EXCEPT ![c] = Some(r)]
            /\ pc' = [pc EXCEPT ![c] = "done"]
            /\ UNCHANGED <<client, fn_call, args, sent, err, frame, out>>

\* create_stream resumes with the stream and asks for its first chunk (lines 754-767)
StreamOpens(c) ==
    /\ pc[c] = "await_stream"
    /\ frame' = [frame EXCEPT ![c] = NewFrame]
    /\ pc' = [pc EXCEPT ![c] = "await_chunk"]
    /\ UNCHANGED <<client, fn_call, _total_usage, _actual_usage, _tool_id, args, sent, err,
                   received, out, result>>

\* a chunk arrives (lines 767-796): up to the yield when it has text, else through
\* the tool calls and to the next anext(stream)
NextChunk(c) ==
    \E chunk \in E.chunks :
        LET f == on_chunk(frame[c], chunk)
        IN  /\ pc[c] = "await_chunk"
            /\ frame[c].n < MaxChunks
            /\ received' = [received EXCEPT ![c] = Append(@, chunk)]
            /\ IF yields_text(chunk)
               THEN /\ frame' = [frame EXCEPT ![c] = f]
                    /\ out' = [out EXCEPT ![c] = Append(@, Val(chunk.message.content))]
                    /\ pc' = [pc EXCEPT ![c] = "at_yield"]
               ELSE /\ frame' = [frame EXCEPT ![c] = on_tool_calls(f, _tool_id)]
                    /\ out' = out
                    /\ pc' = pc
            /\ UNCHANGED <<client, fn_call, _total_usage, _actual_usage, _tool_id, args, sent,
                           err, result>>

\* the caller asks for the next output after a text output (lines 783-796, 764-767)
ResumeAfterYield(c) ==
    /\ pc[c] = "at_yield"
    /\ frame' = [frame EXCEPT ![c] = on_tool_calls(@, _tool_id)]
    /\ pc' = [pc EXCEPT ![c] = "await_chunk"]
    /\ UNCHANGED <<client, fn_call, _total_usage, _actual_usage, _tool_id, args, sent, err,
                   received, out, result>>

\* the chunk sequence ends: StopAsyncIteration (lines 811-865)
StreamEnds(c) ==
    LET r == stream_response(frame[c])
    IN  /\ pc[c] = "await_chunk"
        /\ _total_usage' = _add_usage(_total_usage, r.usage)
        /\ _actual_usage' = _add_usage(_actual_usage, r.usage)
        /\ result' = [result EXCEPT ![c] = Some(r)]
        /\ pc' = [pc EXCEPT ![c] = "done"]
        /\ UNCHANGED <<client, fn_call, _tool_id, args, sent, err, frame, received, out>>

\* the linked cancellation token is cancelled while the call awaits the backend
\* (lines 644-646, 752-754, 765-767): CancelledError reaches the caller
Cancel(c) ==
    /\ pc[c] \in Awaiting
    /\ args[c].cancellation_token
    /\ pc' = [pc EXCEPT ![c] = "cancelled"]
    /\ err' = [err EXCEPT ![c] = "CancelledError"]
    /\ frame' = [frame EXCEPT ![c] = NewFrame]
    /\ UNCHANGED <<client, fn_call, _total_usage, _actual_usage, _tool_id, args, sent, received,
                   out, result>>

\* the awaited backend operation raises (lines 646, 754, 767)
BackendFails(c) ==
    /\ pc[c] \in Awaiting
    /\ pc' = [pc EXCEPT ![c] = "failed"]
    /\ err' = [err EXCEPT ![c] = "BackendError"]
    /\ frame' = [frame EXCEPT ![c] = NewFrame]
    /\ UNCHANGED <<client, fn_call, _total_usage, _actual_usage, _tool_id, args, sent, received,
                   out, result>>

Next ==
    \/ \E c \in Calls : Create(c)
    \/ \E c \in Calls : CreateStream(c)
    \/ \E c \in Calls : CreateReturns(c)
    \/ \E c \in Calls : StreamOpens(c)
    \/ \E c \in Calls : NextChunk(c)
    \/ \E c \in Calls : ResumeAfterYield(c)
    \/ \E c \in Calls : StreamEnds(c)
    \/ \E c \in Calls : Cancel(c)
    \/ \E c \in Calls : BackendFails(c)

Init == \E scenario \in {"conc", "args", "stream"} : InitClient(scenario)

InitConc == InitClient("conc")

InitArgs == InitClient("args")

InitStream == InitClient("stream")

InitMerge == InitClient("merge")

InitFn == InitClient("none")

Spec == Init /\ [][Next]_vars

\* concurrent calls
SpecConc == InitConc /\ [][Next]_vars

\* the request builder over all kinds of request
SpecArgs == InitArgs /\ [][Next]_vars

\* one call over all kinds of backend answer
SpecStream == InitStream /\ [][Next]_vars

\* calls with per-call extra args on clients built with control parameters
SpecMerge == InitMerge /\ [][Next]_vars

\* what belongs to the client and its calls
client_state ==
    <<client, _total_usage, _actual_usage, _tool_id, pc, args, sent, err, frame,
      received, out, result>>

\* user_message_to_ollama is applied to a multi-part UserMessage
UserMessageToOllama ==
    \E parts \in PartLists :
        LET message == UserMessage(<<"u", "1">>, Parts(parts))
        IN  /\ fn_call' = [fn |-> "user_message_to_ollama", arg |-> message,
                           ret |-> user_message_to_ollama(message)]
            /\ UNCHANGED client_state

\* convert_tools is applied to a tool schema with one property
ConvertTools ==
    \E prop_schema \in PropertySchemas :
        /\ fn_call' = [fn |-> "convert_tools", arg |-> <<ToolWith(prop_schema)>>,
                       ret |-> convert_tools(<<ToolWith(prop_schema)>>)]
        /\ UNCHANGED client_state

\* calculate_vision_tokens is applied to an image of some size
CalculateVisionTokens ==
    \E width \in ImageEdges, height \in ImageEdges, detail \in {"auto", "low"} :
        /\ fn_call' = [fn |-> "calculate_vision_tokens",
                       arg |-> [size |-> <<width, height>>, detail |-> detail],
                       ret |-> calculate_vision_tokens(<<width, height>>, detail)]
        /\ UNCHANGED client_state

NextFn ==
    \/ UserMessageToOllama
    \/ ConvertTools
    \/ CalculateVisionTokens

\* the module-level functions over their inputs
SpecFn == InitFn /\ [][NextFn]_vars

(***************************************************************************)
(* Properties.                                                             *)
(***************************************************************************)
Finished(c) == pc[c] = "done"

IsStream(c) == args[c].kind = "create_stream"

UsageOf(c) == Val(result[c]).usage

RECURSIVE SumPrompt(_)
SumPrompt(S) ==
    IF S = {} THEN 0
    ELSE LET c == CHOOSE x \in S : TRUE
         IN  UsageOf(c).prompt_tokens + SumPrompt(S \ {c})

RECURSIVE SumCompletion(_)
SumCompletion(S) ==
    IF S = {} THEN 0
    ELSE LET c == CHOOSE x \in S : TRUE
         IN  UsageOf(c).completion_tokens + SumCompletion(S \ {c})

RECURSIVE TextsOf(_)
\* the non-empty text fragments of a sequence of chunks, in arrival order
TextsOf(chunks) ==
    IF chunks = <<>> THEN <<>>
    ELSE LET content == Head(chunks).message.content
         IN  (IF content \notin {None, Some("")} THEN <<Val(content)>> ELSE <<>>)
             \o TextsOf(Tail(chunks))

\* C1: when the concurrent create / create_stream calls on the client have all
\* completed successfully, total_usage is the component-wise sum of the usages of
\* the individual calls, whatever the interleaving and the completion order.
C1_NoLostIncrement ==
    (\A c \in Calls : Finished(c)) =>
        /\ _total_usage.prompt_tokens = SumPrompt(Calls)
        /\ _total_usage.completion_tokens = SumCompletion(Calls)

\* two calls with usages (10,5) and (20,3) have completed and the total is (30,8)
C1_Witness ==
    /\ \A c \in Calls : Finished(c)
    /\ \E c, d \in Calls :
          /\ UsageOf(c) = RequestUsage(10, 5) /\ ~IsStream(c)
          /\ UsageOf(d) = RequestUsage(20, 3) /\ IsStream(d)
    /\ _total_usage = RequestUsage(30, 8)

Completes(c) == pc[c] # "done" /\ pc'[c] = "done"

Aborts(c) == pc[c] # pc'[c] /\ pc'[c] \in {"failed", "cancelled"}

\* C2: total_usage and actual_usage are equal in every state, start at (0,0),
\* never decrease, and change only when a create or create_stream call completes
\* successfully, by exactly the usage of that call's CreateResult; a call that
\* fails or is cancelled leaves both unchanged.
C2_UsageTotals ==
    /\ _total_usage = RequestUsage(0, 0)
    /\ _actual_usage = RequestUsage(0, 0)
    /\ [](_total_usage = _actual_usage)
    /\ [][/\ _total_usage'.prompt_tokens >= _total_usage.prompt_tokens
          /\ _total_usage'.completion_tokens >= _total_usage.completion_tokens
          /\ (_total_usage' # _total_usage \/ _actual_usage' # _actual_usage) =>
                \E c \in Calls : Completes(c)
          /\ \A c \in Calls : Completes(c) =>
                /\ result'[c] # None
                /\ _total_usage'.prompt_tokens =
                      _total_usage.prompt_tokens + Val(result'[c]).usage.prompt_tokens
                /\ _total_usage'.completion_tokens =
                      _total_usage.completion_tokens
                          + Val(result'[c]).usage.completion_tokens
          /\ \A c \in Calls : Aborts(c) =>
                _total_usage' = _total_usage /\ _actual_usage' = _actual_usage]_vars

\* a stream was cancelled after a chunk, a backend call failed, and the totals hold
\* the usage of the one completed call
C2_Witness ==
    \E c, d, e \in Calls :
        /\ pc[c] = "cancelled" /\ received[c] # <<>>
        /\ pc[d] = "done" /\ UsageOf(d).completion_tokens > 0
        /\ _total_usage = UsageOf(d) /\ _actual_usage = UsageOf(d)
        /\ c # d

\* the names configured identifiers may have: [A-Za-z0-9_-]{1,64}
WellFormedName(name) ==
    /\ Len(name) \in 1..64
    /\ \A i \in 1..Len(name) :
          name[i] \in {"a", "b", "c", "d", "e", "f", "g", "h", "i", "j", "k", "l", "m",
                       "n", "o", "p", "q", "r", "s", "t", "u", "v", "w", "x", "y", "z",
                       "A", "B", "C", "D", "E", "F", "G", "H", "I", "J", "K", "L", "M",
                       "N", "O", "P", "Q", "R", "S", "T", "U", "V", "W", "X", "Y", "Z",
                       "0", "1", "2", "3", "4", "5", "6", "7", "8", "9", "_", "-"}

\* the keys of the merged create args of a call, as the backend names them
MergedKeys(a) ==
    {Lower(k) : k \in DictKeys(_create_args) \cup DictKeys(a.extra_create_args)}

FormatSet(a) == "format" \in MergedKeys(a)

ResponseFormatSet(a) == "response_format" \in MergedKeys(a)

JsonOutputSet(a) == a.json_output # None

\* the tools a call asks to have converted
ToolsToConvert(a) ==
    IF a.tool_choice.kind = "tool" THEN <<a.tool_choice.tool>>
    ELSE IF a.tool_choice.kind = "none" THEN <<>>
    ELSE a.tools

HasImage(a) ==
    \E i \in 1..Len(a.messages) : \E j \in 1..Len(a.messages[i].content.parts) :
        a.messages[i].content.parts[j].kind = "Image"

\* the precondition violations of a request
InvalidSource(a) ==
    \E i \in 1..Len(a.messages) :
        /\ a.messages[i].type \in {"UserMessage", "AssistantMessage"}
        /\ ~WellFormedName(a.messages[i].source)

InvalidToolName(a) ==
    \E i \in 1..Len(ToolsToConvert(a)) : ~WellFormedName(ToolsToConvert(a)[i].name)

UnknownPart(a) ==
    \E i \in 1..Len(a.messages) :
        /\ a.messages[i].type = "UserMessage"
        /\ \E j \in 1..Len(a.messages[i].content.parts) :
              a.messages[i].content.parts[j].kind \notin {"str", "Image"}

FormatConflict(a) == JsonOutputSet(a) /\ FormatSet(a)

Unsupported(a) ==
    \/ ~model_info.json_output /\ a.json_output = JTrue
    \/ ~model_info.vision /\ HasImage(a)
    \/ ~model_info.function_calling /\ Len(a.tools) > 0

RequiredWithoutTools(a) == a.tool_choice.kind = "required" /\ Len(a.tools) = 0

Violates(a) ==
    \/ InvalidSource(a) \/ InvalidToolName(a) \/ UnknownPart(a)
    \/ FormatConflict(a) \/ Unsupported(a) \/ RequiredWithoutTools(a)

PreconditionErrors ==
    {"InvalidName", "InvalidContentPart", "ConflictingFormatDirective",
     "UnsupportedCapability", "NoToolsProvided"}

\* C3: every precondition failure of create and create_stream (invalid source or
\* tool name, unknown content part, conflicting format directives, unsupported
\* capability, tool_choice "required" with no tools) is raised before any backend
\* chat call is issued, and leaves the usage totals and the tool-id counter unchanged.
C3_FailFast ==
    /\ [](\A c \in Calls :
            /\ (pc[c] # "idle" /\ Violates(args[c])) =>
                  pc[c] = "failed" /\ sent[c] = None /\ received[c] = <<>>
            /\ err[c] \in PreconditionErrors => sent[c] = None /\ received[c] = <<>>)
    /\ [][\A c \in Calls :
            err'[c] \in PreconditionErrors /\ err[c] = "" =>
                /\ pc[c] = "idle"
                /\ _total_usage' = _total_usage
                /\ _actual_usage' = _actual_usage
                /\ _tool_id' = _tool_id]_vars

\* a request with an invalid source name has failed and nothing was sent
C3_Witness ==
    \E c \in Calls :
        /\ InvalidSource(args[c])
        /\ pc[c] = "failed" /\ err[c] = "InvalidName" /\ sent[c] = None

Cancelled(c) == pc[c] = "cancelled"

\* C4: a create_stream call cancelled while a next-chunk read is pending never
\* yields a final CreateResult: the caller has seen exactly the text outputs of the
\* chunks consumed before the cancellation, then the cancellation signal.
C4_CancelledStream ==
    \A c \in Calls :
        (IsStream(c) /\ Cancelled(c)) =>
            /\ result[c] = None
            /\ out[c] = TextsOf(received[c])
            /\ err[c] = "CancelledError"

\* chunks "Hel", "lo": cancelled after the first, the caller has seen exactly "Hel"
C4_Witness ==
    \E c \in Calls :
        /\ IsStream(c) /\ Cancelled(c)
        /\ Len(received[c]) = 1
        /\ received[c][1].message.content = Some("Hel")
        /\ out[c] = <<"Hel">>
        /\ result[c] = None

\* C5: a create_stream call whose chunk sequence ends normally produces text
\* outputs followed by exactly one CreateResult as its last output; the text outputs
\* are exactly the non-empty text fragments of the chunks, each yielded when its
\* chunk is consumed, in arrival order; tool-call fragments are never yielded.
C5_StreamOutputs ==
    /\ [](\A c \in Calls :
            /\ pc[c] \in {"await_chunk", "at_yield", "done"} /\ IsStream(c) =>
                  out[c] = TextsOf(received[c])
            /\ IsStream(c) => (Finished(c) <=> result[c] # None))
    /\ [][\A c \in Calls :
            /\ Len(received'[c]) > Len(received[c]) /\ IsStream(c) =>
                  out'[c] = out[c] \o TextsOf(<<received'[c][Len(received'[c])]>>)
            /\ Finished(c) => out'[c] = out[c] /\ result'[c] = result[c] /\ Finished(c)']_vars

\* a stream of a text chunk and a tool-call chunk has ended: one text output, then
\* the CreateResult carrying the tool call
C5_Witness ==
    \E c \in Calls :
        /\ IsStream(c) /\ Finished(c)
        /\ Len(received[c]) = 2
        /\ received[c][2].message.tool_calls # None
        /\ out[c] = <<"Hel">>
        /\ Val(result[c]).content.kind = "list"
        /\ Len(Val(result[c]).content.calls) = 1

RECURSIVE PresentTextsOf(_)
\* the text fragments of a sequence of chunks that are not absent, empty ones included
PresentTextsOf(chunks) ==
    IF chunks = <<>> THEN <<>>
    ELSE LET content == Head(chunks).message.content
         IN  (IF content # None THEN <<Val(content)>> ELSE <<>>)
             \o PresentTextsOf(Tail(chunks))

RECURSIVE ToolCallCount(_)
\* the number of tool calls a sequence of chunks carries
ToolCallCount(chunks) ==
    IF chunks = <<>> THEN 0
    ELSE (IF Head(chunks).message.tool_calls # None
          THEN Len(Val(Head(chunks).message.tool_calls)) ELSE 0)
         + ToolCallCount(Tail(chunks))

RECURSIVE Concat(_)
Concat(texts) == IF texts = <<>> THEN "" ELSE Head(texts) \o Concat(Tail(texts))

\* the aggregation rule of create_stream over a given list of accumulated fragments
Aggregated(c, texts) ==
    LET r == Val(result[c])
        calls == frame[c].full_tool_calls
    IN  /\ Len(calls) = ToolCallCount(received[c])
        /\ IF Len(texts) >= 1 /\ Len(calls) >= 1
           THEN r.content = ListContent(calls) /\ r.thought = Some(Concat(texts))
           ELSE IF Len(texts) > 1
           THEN r.content = StrContent(Concat(texts))
           ELSE r.content = ListContent(calls)

\* C6 as stated: the accumulated fragments are the non-empty fragments received;
\* with a text and a tool call, content is the tool calls and thought the text;
\* else with more than one fragment content is their concatenation; else content
\* is the (possibly empty) tool-call list.
C6_AsStated ==
    \A c \in Calls : (IsStream(c) /\ Finished(c)) => Aggregated(c, TextsOf(received[c]))

\* C6 amended: the same rule holds with the accumulated fragments being every
\* text fragment received that is not absent, the empty ones included.
C6_Aggregation ==
    \A c \in Calls :
        (IsStream(c) /\ Finished(c)) => Aggregated(c, PresentTextsOf(received[c]))

\* "Hel" and then an empty fragment, no tool calls: two accumulated fragments, so
\* the final content is the text "Hel"
C6_Witness ==
    \E c \in Calls :
        /\ IsStream(c) /\ Finished(c)
        /\ PresentTextsOf(received[c]) = <<"Hel", "">>
        /\ ToolCallCount(received[c]) = 0
        /\ Val(result[c]).content = StrContent("Hel")

CountOrZero(count) == IF count = None THEN 0 ELSE Val(count)

\* C7: the usage of the final CreateResult of a create_stream call that ends
\* normally is the prompt and completion counts of the last chunk consumed, each
\* zero when absent, whatever the final content is.
C7_UsageFromLastChunk ==
    \A c \in Calls :
        (IsStream(c) /\ Finished(c) /\ received[c] # <<>>) =>
            LET last == received[c][Len(received[c])]
            IN  /\ UsageOf(c).prompt_tokens = CountOrZero(last.prompt_eval_count)
                /\ UsageOf(c).completion_tokens = CountOrZero(last.eval_count)

\* the lookup of finish reasons, on the lower-cased backend reason
FinishReasonOf(done_reason) ==
    IF done_reason = None THEN "unknown"
    ELSE IF Lower(Val(done_reason)) \in {"stop", "end_turn"} THEN "stop"
    ELSE IF Lower(Val(done_reason)) = "tool_calls" THEN "function_calls"
    ELSE "unknown"

\* [A-Za-z0-9_-]{0,64}
NormalForm(name) ==
    /\ Len(name) <= 64
    /\ \A i \in 1..Len(name) : WellFormedName(<<name[i]>>)

ValueUnder(d, key) == d[CHOOSE i \in 1..Len(d) : Lower(d[i][1]) = key][2]

MergedValue(a, key) ==
    IF key \in {Lower(k) : k \in DictKeys(a.extra_create_args)}
    THEN ValueUnder(a.extra_create_args, key)
    ELSE ValueUnder(_create_args, key)

NumberSet(a) ==
    (IF ResponseFormatSet(a) THEN 1 ELSE 0) + (IF JsonOutputSet(a) THEN 1 ELSE 0)
        + (IF FormatSet(a) THEN 1 ELSE 0)

IsSchemaType(v) == v.t = "type"

Begun(c) == pc[c] # "idle"

FailedUnsent(c) == pc[c] = "failed" /\ sent[c] = None

\* the directive of a request that sets exactly one of the three inputs
SingleDirective(a) ==
    IF a.json_output = JTrue THEN Some(VStr("json"))
    ELSE IF a.json_output = JFalse THEN None
    ELSE IF JsonOutputSet(a) THEN Some(VSchema(Val(a.json_output).s))
    ELSE IF ResponseFormatSet(a) THEN Some(VSchema(MergedValue(a, "response_format").s))
    ELSE Some(MergedValue(a, "format"))

ExactlyOneDirective(c) ==
    (NumberSet(args[c]) = 1 /\ sent[c] # None) =>
        Val(sent[c]).format = SingleDirective(args[c])

Converted(tools) == [i \in 1..Len(tools) |-> convert_tool(tools[i])]

\* nothing but the tool list and tool_choice can make the request fail
OtherwiseValid(a) ==
    /\ ~InvalidSource(a) /\ ~UnknownPart(a) /\ ~Unsupported(a)
    /\ NumberSet(a) = 0

\* C10: the tools sent follow tool_choice: a specific tool object sends exactly that
\* converted tool whatever the supplied list; "none" sends no tools; "required"
\* sends all supplied tools in order and fails with no-tools-provided on an empty
\* list; "auto" sends all supplied tools in order, and an empty list is allowed and
\* sends no tools.
C10_ToolChoice ==
    \A c \in Calls :
        LET a == args[c]
            kind == a.tool_choice.kind
        IN  /\ sent[c] # None =>
                  /\ kind = "tool" =>
                        Val(sent[c]).tools = Some(<<convert_tool(a.tool_choice.tool)>>)
                  /\ kind = "none" => Val(sent[c]).tools = None
                  /\ kind = "required" =>
                        a.tools # <<>> /\ Val(sent[c]).tools = Some(Converted(a.tools))
                  /\ kind = "auto" =>
                        Val(sent[c]).tools =
                            IF a.tools = <<>> THEN None ELSE Some(Converted(a.tools))
            /\ (Begun(c) /\ kind = "required" /\ a.tools = <<>>) =>
                  /\ FailedUnsent(c)
                  /\ OtherwiseValid(a) => err[c] = "NoToolsProvided"
            /\ (Begun(c) /\ kind \in {"auto", "none"} /\ a.tools = <<>>
                   /\ OtherwiseValid(a)) => sent[c] # None

\* tools [f] were supplied with the tool object g as tool_choice: only g was sent
C10_Witness ==
    \E c \in Calls :
        /\ args[c].tools = <<ToolF>> /\ args[c].tool_choice = Choose(ToolG)
        /\ sent[c] # None
        /\ Len(Val(Val(sent[c]).tools)) = 1
        /\ Val(Val(sent[c]).tools)[1].name = <<"g", "_", "1">>

\* JSON output is requested in any of the ways a call can ask for it
JsonRequested(a) ==
    \/ JsonOutputSet(a) /\ a.json_output # JFalse
    \/ FormatSet(a)
    \/ ResponseFormatSet(a)

\* no check that runs before the capability checks can fail
NoFormatFault(a) ==
    /\ NumberSet(a) <= 1
    /\ ResponseFormatSet(a) => IsSchemaType(MergedValue(a, "response_format"))

NoMessageFault(a) == ~InvalidSource(a) /\ ~UnknownPart(a)

UnsupportedVision(c) ==
    (Begun(c) /\ ~model_info.vision /\ HasImage(args[c])) =>
        /\ FailedUnsent(c)
        /\ NoFormatFault(args[c]) => err[c] = "UnsupportedCapability"

UnsupportedTools(c) ==
    (Begun(c) /\ ~model_info.function_calling /\ Len(args[c].tools) > 0) =>
        /\ FailedUnsent(c)
        /\ (NoFormatFault(args[c]) /\ NoMessageFault(args[c])) =>
              err[c] = "UnsupportedCapability"

\* C11 as stated: a call fails before any backend call when JSON output is
\* requested (json_output=True, a schema type, or a format / response_format
\* directive) and model_info.json_output is false; when a message carries an image
\* and model_info.vision is false; when the tool list is non-empty and
\* model_info.function_calling is false.
C11_AsStated ==
    \A c \in Calls :
        /\ (Begun(c) /\ ~model_info.json_output /\ JsonRequested(args[c])) =>
              FailedUnsent(c)
        /\ UnsupportedVision(c)
        /\ UnsupportedTools(c)

\* C11 amended: of the ways to request JSON output only json_output=True is
\* checked against model_info.json_output: such a call fails before any backend
\* call with the unsupported-capability error, while a schema type, a format or a
\* response_format directive is sent to the backend as on a model that supports
\* JSON output.  The image and the tool-list cases fail as stated.
C11_Unsupported ==
    \A c \in Calls :
        LET a == args[c]
        IN  /\ (Begun(c) /\ ~model_info.json_output /\ a.json_output = JTrue) =>
                  /\ FailedUnsent(c)
                  /\ (ResponseFormatSet(a) => IsSchemaType(MergedValue(a, "response_format")))
                        => err[c] = "UnsupportedCapability"
            /\ (Begun(c) /\ ~model_info.json_output /\ JsonRequested(a)
                   /\ a.json_output # JTrue /\ NumberSet(a) = 1 /\ NoFormatFault(a)
                   /\ ~Violates(a)) =>
                  /\ sent[c] # None
                  /\ Val(sent[c]).format = SingleDirective(a)
            /\ UnsupportedVision(c)
            /\ UnsupportedTools(c)

\* json_output=True on a model without JSON output: refused, nothing sent
C11_Witness ==
    \E c \in Calls :
        /\ ~model_info.json_output /\ args[c].json_output = JTrue
        /\ ~FormatSet(args[c]) /\ ~ResponseFormatSet(args[c])
        /\ pc[c] = "failed" /\ err[c] = "UnsupportedCapability" /\ sent[c] = None

\* the request fields a caller may set through create args, apart from the format
\* directives and the keywords the chat call passes itself
PassedFields == {"model", "keep_alive"}

\* the options map the per-call extra args carry, empty when they carry none
ExtraOptions(a) ==
    IF DictHas(a.extra_create_args, "options")
    THEN DictGet(a.extra_create_args, "options").d
    ELSE <<>>

\* the per-call extra args set a key: at the top level or, for a control
\* parameter, inside their options map
ExtraSets(a, key) ==
    \/ key \in {Lower(k) : k \in DictKeys(a.extra_create_args)}
    \/ key \in LLM_CONTROL_PARAMS /\ DictHas(ExtraOptions(a), key)

ExtraValue(a, key) ==
    IF key \in {Lower(k) : k \in DictKeys(a.extra_create_args)}
    THEN ValueUnder(a.extra_create_args, key)
    ELSE DictGet(ExtraOptions(a), key)

\* the value the client was constructed with for a key: control parameters are
\* kept in the stored options map
ConstructionSets(key) ==
    IF key \in LLM_CONTROL_PARAMS
    THEN DictHas(_create_args, "options")
            /\ DictHas(DictGet(_create_args, "options").d, key)
    ELSE DictHas(_create_args, key)

ConstructionValue(key) ==
    IF key \in LLM_CONTROL_PARAMS
    THEN DictGet(DictGet(_create_args, "options").d, key)
    ELSE DictGet(_create_args, key)

SentOptions(c) ==
    IF DictHas(Val(sent[c]).create_args, "options")
    THEN DictGet(Val(sent[c]).create_args, "options").d
    ELSE <<>>

\* the value a call sent under a key: control parameters nested under options
IsSent(c, key) ==
    IF key \in LLM_CONTROL_PARAMS THEN DictHas(SentOptions(c), key)
    ELSE DictHas(Val(sent[c]).create_args, key)

SentValue(c, key) ==
    IF key \in LLM_CONTROL_PARAMS THEN DictGet(SentOptions(c), key)
    ELSE DictGet(Val(sent[c]).create_args, key)

Unrecognised(key) == key \notin OLLAMA_VALID_CREATE_KWARGS_KEYS \cup LLM_CONTROL_PARAMS

\* C12: for each recognised request field and each control parameter the value
\* sent is the per-call extra-args value when extra args set it, otherwise the value
\* given at construction; control parameters go nested under options (never at the
\* top level); a key that is neither is never sent and never makes the call fail.
C12_MergedArgs ==
    \A c \in Calls :
        LET a == args[c]
        IN  /\ sent[c] # None =>
                  /\ \A key \in PassedFields \cup LLM_CONTROL_PARAMS :
                        IF ExtraSets(a, key)
                        THEN IsSent(c, key)
                                /\ SentValue(c, key) = ExtraValue(a, key)
                        ELSE IF ConstructionSets(key)
                        THEN IsSent(c, key) /\ SentValue(c, key) = ConstructionValue(key)
                        ELSE ~IsSent(c, key)
                  /\ DictKeys(Val(sent[c]).create_args) \cap LLM_CONTROL_PARAMS = {}
                  /\ \A k \in DictKeys(a.extra_create_args) :
                        Unrecognised(Lower(k)) =>
                            /\ ~DictHas(Val(sent[c]).create_args, k)
                            /\ ~DictHas(SentOptions(c), k)
            /\ (Begun(c) /\ \A k \in DictKeys(a.extra_create_args) : Unrecognised(Lower(k)))
                  => sent[c] # None

\* C13: the client's stored construction-time create args, nested options map
\* included, are changed by no step of any create or create_stream call, whatever
\* extra args it passes and however it ends; so a call that passes no extra args
\* sends the construction-time create args, whatever the calls before it passed.
C13_RequestScoped ==
    /\ [][_create_args' = _create_args]_vars
    /\ [](\A c \in Calls :
            (sent[c] # None /\ args[c].extra_create_args = <<>>) =>
                Val(sent[c]).create_args = _create_args)

\* one call overrode the temperature kept in the stored options map, another
\* passed nothing and sent the stored value
C13_Witness ==
    \E c, d \in Calls :
        /\ c # d
        /\ ConstructionSets("temperature")
        /\ ConstructionValue("temperature") = VStr("0.5")
        /\ sent[c] # None /\ ExtraSets(args[c], "temperature")
        /\ SentValue(c, "temperature") = VStr("0.9")
        /\ pc[c] \in {"done", "cancelled", "failed"}
        /\ sent[d] # None /\ args[d].extra_create_args = <<>>
        /\ SentValue(d, "temperature") = VStr("0.5")

\* the call has returned a CreateResult whose content is a non-empty tool-call list
CarriesToolCalls(c) ==
    /\ Finished(c)
    /\ Val(result[c]).content.kind = "list"
    /\ Val(result[c]).content.calls # <<>>

ToolCallIds(c) ==
    {Val(result[c]).content.calls[i].id : i \in 1..Len(Val(result[c]).content.calls)}

\* C14: the per-client counter has been incremented once for every returned
\* response that carries tool calls, from create and from create_stream alike, and
\* two tool-call-carrying responses of the client never share a tool-call id.
C14_UniqueToolIds ==
    /\ _tool_id = Cardinality({c \in Calls : CarriesToolCalls(c)})
    /\ \A c, d \in Calls :
          (c # d /\ CarriesToolCalls(c) /\ CarriesToolCalls(d)) =>
              ToolCallIds(c) \cap ToolCallIds(d) = {}

RECURSIVE FirstStopReason(_)
\* the done_reason of the first chunk that sets the stop reason: the first chunk
\* flagged done that has a done_reason; absent when no chunk does
FirstStopReason(chunks) ==
    IF chunks = <<>> THEN None
    ELSE IF Head(chunks).done /\ Head(chunks).done_reason # None
    THEN Head(chunks).done_reason
    ELSE FirstStopReason(Tail(chunks))

InStream(c) == IsStream(c) /\ pc[c] \in {"await_chunk", "at_yield", "done"}

\* C15: in create_stream the stop reason is first-writer-wins: it is the
\* done_reason of the first chunk that set it, no later chunk changes it, and the
\* finish reason of the final CreateResult is the lookup of that first stop reason,
\* unknown when no chunk set one.
C15_FirstWriterWins ==
    /\ [](\A c \in Calls :
            /\ InStream(c) => frame[c].stop_reason = FirstStopReason(received[c])
            /\ (IsStream(c) /\ Finished(c)) =>
                  Val(result[c]).finish_reason
                      = FinishReasonOf(FirstStopReason(received[c])))
    /\ [][\A c \in Calls :
            (InStream(c) /\ InStream(c)' /\ frame[c].stop_reason # None) =>
                frame'[c].stop_reason = frame[c].stop_reason]_vars

\* a chunk with done_reason "stop", then a chunk with done_reason "length": the
\* finish reason is stop
C15_Witness ==
    \E c \in Calls :
        /\ IsStream(c) /\ Finished(c)
        /\ Len(received[c]) = 2
        /\ received[c][1].done /\ received[c][1].done_reason = Some("stop")
        /\ received[c][2].done /\ received[c][2].done_reason = Some("length")
        /\ Val(result[c]).finish_reason = "stop"

\* user_message_to_ollama was applied to a UserMessage with these content parts
TranslatedParts(parts) ==
    /\ fn_call.fn = "user_message_to_ollama"
    /\ fn_call.arg.content.parts = parts

HelloThenImageA == <<[kind |-> "str", v |-> "hello"], [kind |-> "Image", v |-> "A"]>>

\* the backend encoding of an image
Encoded(img) == "b64:" \o img

\* C16 as stated: ["hello", Image(A)] translates to two backend messages, in this
\* order: {role: user, content: "hello"} and then {role: user, images: [A]}.
C16_AsStated ==
    TranslatedParts(HelloThenImageA) =>
        fn_call.ret = Ok(<<Message("user", Some("hello"), None, None),
                           Message("user", None, Some(<<Encoded("A")>>), None)>>)

\* C16 amended: ["hello", Image(A)] translates to one backend message,
\* {role: user, content: "hello", images: [A]}: the image joins the message the
\* text part started.
C16_TextThenImage ==
    TranslatedParts(HelloThenImageA) =>
        fn_call.ret = Ok(<<Message("user", Some("hello"), Some(<<Encoded("A")>>), None)>>)

\* ["hello", Image(A)] has been translated, to a single message
C16_Witness ==
    /\ TranslatedParts(HelloThenImageA)
    /\ fn_call.ret.err = ""
    /\ Len(fn_call.ret.val) = 1

\* the parts that start a backend message: every text part, and the first part
\* when it is an image
StartsMessage(parts, i) ==
    parts[i].kind = "str" \/ (i = 1 /\ parts[i].kind = "Image")

Starts(parts) == {i \in 1..Len(parts) : StartsMessage(parts, i)}

\* the j-th smallest element of a set of numbers
Nth(S, j) == CHOOSE i \in S : Cardinality({k \in S : k < i}) = j - 1

\* the images from part i up to the next text part, in order
ImagesFrom(parts, i) ==
    LET later == {k \in Starts(parts) : k > i}
        end == IF later = {} THEN Len(parts)
               ELSE (CHOOSE k \in later : \A l \in later : k <= l) - 1
        segment == SelectSeq(SubSeq(parts, i, end), LAMBDA part : part.kind = "Image")
    IN  [k \in 1..Len(segment) |-> Encoded(segment[k].v)]

\* C17: a multi-part User message is translated part by part in order: each text
\* part starts a new backend user message; an image part starts a new message
\* without text when no message was emitted yet, and otherwise joins the end of the
\* image list of the last emitted message, with or without text.  So there are as
\* many backend messages as text parts, plus one when the first part is an image,
\* and [Image(A), Image(B)] gives one message without content and images [A, B].
C17_PartByPart ==
    fn_call.fn = "user_message_to_ollama" =>
        LET parts == fn_call.arg.content.parts
            texts == Cardinality({i \in 1..Len(parts) : parts[i].kind = "str"})
            msgs == fn_call.ret.val
        IN  /\ fn_call.ret.err = ""
            /\ Len(msgs) = texts + (IF parts # <<>> /\ parts[1].kind = "Image" THEN 1 ELSE 0)
            /\ Len(msgs) = Cardinality(Starts(parts))
            /\ \A j \in 1..Len(msgs) :
                  LET i == Nth(Starts(parts), j)
                      images == ImagesFrom(parts, i)
                  IN  /\ msgs[j].role = "user"
                      /\ msgs[j].content =
                            IF parts[i].kind = "str" THEN Some(parts[i].v) ELSE None
                      /\ msgs[j].images = IF images = <<>> THEN None ELSE Some(images)

\* [Image(A), Image(B)] has been translated: one message, no content, images [A, B]
C17_Witness ==
    /\ TranslatedParts(<<[kind |-> "Image", v |-> "A"], [kind |-> "Image", v |-> "B"]>>)
    /\ fn_call.ret = Ok(<<Message("user", None, Some(<<Encoded("A"), Encoded("B")>>), None)>>)

RECURSIVE FirstTyped(_)
\* the type of the first alternative that carries a type other than "null";
\* alternatives without a type field are skipped
FirstTyped(alts) ==
    IF alts = <<>> THEN None
    ELSE IF Head(alts) # None /\ Head(alts) # Some("null") THEN Head(alts)
    ELSE FirstTyped(Tail(alts))

\* C18: the converted type of a tool property is its explicit type when present;
\* otherwise the type of the first alternative of its anyOf list that carries a
\* type other than "null", an alternative without a type field being skipped;
\* otherwise "string".
C18_PropertyType ==
    fn_call.fn = "convert_tools" =>
        LET prop_schema == Val(fn_call.arg[1].parameters).properties[1]
            converted == Val(fn_call.ret.val[1].properties)[1]
            from_any_of == IF prop_schema.anyOf = None THEN None
                           ELSE FirstTyped(Val(prop_schema.anyOf))
        IN  /\ fn_call.ret.err = ""
            /\ converted.type =
                  IF prop_schema.type # None THEN Val(prop_schema.type)
                  ELSE IF from_any_of # None THEN Val(from_any_of)
                  ELSE "string"

\* calculate_vision_tokens was applied to a 4096x2048 image with the default detail
Estimated4096x2048 ==
    /\ fn_call.fn = "calculate_vision_tokens"
    /\ fn_call.arg = [size |-> <<4096, 2048>>, detail |-> "auto"]

\* C19 as stated: the estimate for a 4096x2048 image with default detail is 1445
\* (2048x1024 after the long-edge cap, no further scaling, 4x2 = 8 tiles,
\* 85 + 170 x 8).
C19_AsStated == Estimated4096x2048 => fn_call.ret = Ok(1445)

\* C19 amended: the estimate for a 4096x2048 image with default detail is 1105:
\* the long-edge cap gives 2048x1024, both sides exceed 768 so the short side is
\* scaled to 768 giving 1536x768, tiled into 3x2 = 6 tiles, 85 + 170 x 6.
C19_VisionTokens ==
    Estimated4096x2048 =>
        /\ long_edge_scaled(fn_call.arg.size) = <<2048, 1024>>
        /\ short_edge_scaled(<<2048, 1024>>) = <<1536, 768>>
        /\ tiles(1536) = 3 /\ tiles(768) = 2
        /\ fn_call.ret = Ok(85 + 170 * 6)
        /\ fn_call.ret = Ok(1105)

\* the estimate of the 4096x2048 image has been computed
C19_Witness == Estimated4096x2048 /\ fn_call.ret.err = ""

\* C20: in every CreateResult returned by create or create_stream the finish
\* reason and the content agree: the finish reason is function_calls exactly when
\* the content is a non-empty list of tool calls, and whenever the finish reason is
\* stop the content is text.
C20_FinishReasonAgrees ==
    \A c \in Calls :
        Finished(c) =>
            LET r == Val(result[c])
            IN  /\ r.finish_reason = "function_calls" <=>
                      (r.content.kind = "list" /\ r.content.calls # <<>>)
                /\ r.finish_reason = "stop" => r.content.kind = "str"

\* C21: on a client whose model_info.function_calling is false no backend chat
\* call carries a tool: whatever the supplied tool list and the tool_choice (a
\* tool object passed as tool_choice with an empty tool list included), the call
\* fails before the backend call or sends no tools.
C21_NoToolsWithoutCapability ==
    \A c \in Calls :
        (Begun(c) /\ ~model_info.function_calling) =>
            \/ FailedUnsent(c)
            \/ sent[c] # None /\ Val(sent[c]).tools = None

====
